---- MODULE Spec2Model ----
(***************************************************************************)
(* A model of commitHistoryTracker.py: find_git_repos (the directory       *)
(* walk), get_commit_history (the two git queries, the line parser and the *)
(* identity filter) and collect_all_commits (the merge, the sort and the   *)
(* export).                                                                *)
(*                                                                         *)
(* Text is a sequence of symbols.  A symbol is one character ("a", ",",    *)
(* " ", "\n", "\f", "T", "Z") or one group of characters that holds no     *)
(* space, comma, "Z" or line break and that the code never looks into      *)
(* (a calendar date "2024-01-01", a time of day "10:00:00", a UTC offset   *)
(* "+0100").  split, splitlines, replace, lower and "in" work on the       *)
(* symbols exactly as the Python methods work on the characters.           *)
(***************************************************************************)
EXTENDS Integers, Sequences, FiniteSets, TLC

VARIABLES
    pc,                 \* where the run is
    tree,               \* the directories under REPOS_DIR, as paths (sequences of names)
    git_repos,          \* find_git_repos: the returned list
    START_DATE,         \* configuration (line 18), "None" when not supplied
    END_DATE,           \* configuration (line 19), "None" when not supplied
    isoLenient,         \* the interpreter's datetime.fromisoformat: TRUE for
                        \* Python >= 3.11, FALSE for Python 3.7 to 3.10
    hasGit,             \* get_commit_history: repo_dir has a .git directory
    history,            \* the repository's commits, newest first
    rcAuthors,          \* exit status of the author query
    rcCommits,          \* exit status of the commit query
    git_cmd,            \* get_commit_history: the commit query's command line
    lines,              \* get_commit_history: result.stdout.splitlines()
    commit_history,     \* get_commit_history: the returned commit list
    all_authors,        \* get_commit_history: the returned author set
    idx,                \* collect_all_commits: repositories processed so far
    all_commits,        \* collect_all_commits: the merged commit list
    all_unique_authors, \* collect_all_commits: the merged author set
    returned,           \* the commit list each call of get_commit_history returned
    prev_authors,       \* all_unique_authors before the latest repository was merged
    failed,             \* the repositories (by position) with a query that exited non-zero
    output              \* OUTPUT_EXCEL: whether the run wrote it, and the rows written

vars == <<pc, tree, git_repos, START_DATE, END_DATE, isoLenient, hasGit, history,
          rcAuthors, rcCommits, git_cmd, lines, commit_history, all_authors, idx,
          all_commits, all_unique_authors, returned, prev_authors, failed, output>>

----------------------------------------------------------------------------
(* Bounds of the model.                                                    *)

\* directories created under REPOS_DIR in the discovery specification
MaxDirs == 5
\* commits of the repository in the extraction specification
MaxCommits == 2
\* repositories under REPOS_DIR in the collection specification
MaxRepos == 2
\* commits per repository in the collection specification
MaxRepoCommits == 1

----------------------------------------------------------------------------
(* Python's str methods, on sequences of symbols.                          *)

\* OUTPUT_EXCEL before the run writes it
NoFile == [written |-> FALSE, rows |-> <<>>]

Range(s) == {s[i] : i \in 1..Len(s)}

\* str.lower(), one character
LowerChar(c) ==
    CASE c = "A" -> "a"
      [] c = "L" -> "l"
      [] c = "B" -> "b"
      [] OTHER -> c

\* str.lower()
Lower(s) == [i \in 1..Len(s) |-> LowerChar(s[i])]

\* needle in hay
Contains(hay, needle) ==
    \E i \in 0..(Len(hay) - Len(needle)) :
        SubSeq(hay, i + 1, i + Len(needle)) = needle

\* the index of the first symbol of s that is in set cs, 0 when there is none
FirstIn(s, cs) ==
    IF \E i \in 1..Len(s) : s[i] \in cs
    THEN CHOOSE i \in 1..Len(s) : s[i] \in cs /\ \A j \in 1..(i - 1) : s[j] \notin cs
    ELSE 0

\* str.split(sep, maxsplit)
RECURSIVE Split(_, _, _)
Split(s, sep, maxsplit) ==
    LET i == FirstIn(s, {sep}) IN
    IF maxsplit = 0 \/ i = 0
    THEN <<s>>
    ELSE <<SubSeq(s, 1, i - 1)>> \o Split(SubSeq(s, i + 1, Len(s)), sep, maxsplit - 1)

\* the line boundaries of str.splitlines() among the model's symbols
LineBreaks == {"\n", "\f"}

\* str.splitlines(): no empty last line after a final line break
RECURSIVE SplitLines(_)
SplitLines(s) ==
    LET i == FirstIn(s, LineBreaks) IN
    IF s = <<>> THEN <<>>
    ELSE IF i = 0 THEN <<s>>
    ELSE <<SubSeq(s, 1, i - 1)>> \o SplitLines(SubSeq(s, i + 1, Len(s)))

\* str.replace(old, new) for a one-character old
Replace(s, old, new) == [i \in 1..Len(s) |-> IF s[i] = old THEN new ELSE s[i]]

\* sep.join(parts)
RECURSIVE Join(_, _)
Join(parts, sep) ==
    IF parts = <<>> THEN <<>>
    ELSE IF Len(parts) = 1 THEN parts[1]
    ELSE parts[1] \o <<sep>> \o Join(Tail(parts), sep)

----------------------------------------------------------------------------
(* find_git_repos.                                                         *)

\* the names a directory of the model may have
DirNames == <<".git", "commit_history", "a", "b", "c">>

\* os.path.basename(OUTPUT_EXCEL).split(".")[0]
OutputName == "commit_history"

\* os.path.basename(root); the walk's top is REPOS_DIR itself
Basename(root) == IF root = <<>> THEN "repositories" ELSE root[Len(root)]

\* dirs, as os.walk hands it to the loop body: the subdirectories of root
DirsOf(t, root) == {p[Len(p)] : p \in {q \in t : Len(q) = Len(root) + 1
                                              /\ SubSeq(q, 1, Len(root)) = root}}

\* a walk that examines the output directory like any other
SkipsNothing(root) == FALSE

\* line 112: the output directory is not examined (the walk still descends)
SkipsOutputDir(root) == Basename(root) = OutputName

\* line 116
IsGitRepo(t, root) == ".git" \in DirsOf(t, root) \/ (root \o <<".git">>) \in t

\* lines 112-120: dirs after the loop body, the directories os.walk descends into
DirsAfterBody(t, root) ==
    IF ~SkipsOutputDir(root) /\ IsGitRepo(t, root)
    THEN DirsOf(t, root) \ {".git"}
    ELSE DirsOf(t, root)

\* lines 110-120, one directory of the walk and everything below it, top down;
\* the subdirectories are taken in the order of DirNames
RECURSIVE Walk(_, _), WalkDirs(_, _, _)
Walk(t, root) ==
    (IF ~SkipsOutputDir(root) /\ IsGitRepo(t, root) THEN <<root>> ELSE <<>>)
    \o WalkDirs(t, root, SelectSeq(DirNames, LAMBDA n : n \in DirsAfterBody(t, root)))

WalkDirs(t, root, names) ==
    IF names = <<>> THEN <<>>
    ELSE Walk(t, root \o <<Head(names)>>) \o WalkDirs(t, root, Tail(names))

\* find_git_repos(base_dir)
find_git_repos(t) == Walk(t, <<>>)

----------------------------------------------------------------------------
(* The repositories' history and the two git queries.                      *)

\* line 15: the identities, here "Al" and "Lex"
YOUR_USERNAMES == << <<"A", "l">>, <<"L", "e", "x">> >>

\* author names: "al", "b" and "b,Al" (git keeps a comma inside a name)
Authors == { <<"a", "l">>, <<"b">>, <<"b", ",", "A", "l">> }

\* an author name whose part before its comma holds an identity: "al,b"
CommaAuthor == <<"a", "l", ",", "b">>

\* subjects: "f" and "f,g"
Subjects == { <<"f">>, <<"f", ",", "g">> }

\* a subject holding two form feeds, "f\fg\fg,g,g"
BrokenSubject == <<"f", "\f", "g", "\f", "g", ",", "g", ",", "g">>

\* committer dates, as --date=iso prints them: date, time, UTC offset
CommitDates == { <<"2024-01-01", "10:00:00">>, <<"2024-01-03", "09:00:00">> }

\* the values of <<START_DATE, END_DATE>>: neither supplied, one of the two, a
\* window that holds 2024-01-03, and a start date after the end date
ConfigWindows == { <<"None", "None">>, <<"2024-01-02", "None">>, <<"None", "2024-01-02">>,
                   <<"2024-01-02", "2024-01-04">>, <<"2024-01-04", "2024-01-02">> }

DayOf(d) ==
    CASE d = "2024-01-01" -> 1
      [] d = "2024-01-02" -> 2
      [] d = "2024-01-03" -> 3
      [] d = "2024-01-04" -> 4

HourOf(t) ==
    CASE t = "09:00:00" -> 9
      [] t = "10:00:00" -> 10
      [] t = "00:00:00" -> 0

\* %cd under --date=iso: "2024-01-01 10:00:00 +0100"
FormatDateIso(c) == <<c.date, " ", c.time, " ", c.off>>

\* line 56, --pretty=format:%cd,%an,%s: one commit's record
FormatCommit(c) == FormatDateIso(c) \o <<",">> \o c.author \o <<",">> \o c.subject

\* the date bounds applied whenever one of the two is supplied
EitherDateSupplied(start_date, end_date) == start_date # "None" \/ end_date # "None"

\* line 59
BothDatesSupplied(start_date, end_date) == start_date # "None" /\ end_date # "None"

\* lines 56-61: the commit query's command line
BuildGitCmd(start_date, end_date) ==
    <<"git", "log", "--pretty=format:%cd,%an,%s", "--date=iso">>
    \o (IF BothDatesSupplied(start_date, end_date)
        THEN <<"--since=", start_date, "--until=", end_date>>
        ELSE <<>>)

\* the value of a flag of the command line, "None" when the flag is absent
FlagOf(cmd, flag) ==
    IF \E i \in 1..(Len(cmd) - 1) : cmd[i] = flag
    THEN cmd[(CHOOSE i \in 1..(Len(cmd) - 1) : cmd[i] = flag) + 1]
    ELSE "None"

\* git log's --since and --until: the commits strictly inside the window
InWindow(c, cmd) ==
    /\ FlagOf(cmd, "--since=") # "None" => DayOf(FlagOf(cmd, "--since=")) < DayOf(c.date)
    /\ FlagOf(cmd, "--until=") # "None" => DayOf(c.date) < DayOf(FlagOf(cmd, "--until="))

\* --pretty=format: the records of the commits of h, separated by "\n"
FormatLog(h) == Join([i \in 1..Len(h) |-> FormatCommit(h[i])], "\n")

\* line 64: the standard output of the commit query
CommitQueryStdout(h, cmd) == FormatLog(SelectSeq(h, LAMBDA c : InWindow(c, cmd)))

\* lines 46-49, --format=%an: every commit's author name, each ended by "\n"
RECURSIVE AuthorQueryStdout(_)
AuthorQueryStdout(h) ==
    IF h = <<>> THEN <<>>
    ELSE Head(h).author \o <<"\n">> \o AuthorQueryStdout(Tail(h))

----------------------------------------------------------------------------
(* get_commit_history.                                                     *)

DateSymbols == {"2024-01-01", "2024-01-03"}
TimeSymbols == {"09:00:00", "10:00:00"}
\* a UTC offset written +HHMM, and written +HH:MM
CompactOffsets == {"+0000", "+0100"}
ColonOffsets == {"+00:00", "+01:00"}
\* the one-character symbols other than "Z", "+" and "-"
PlainChars == {"T", " ", ",", "a", "l", "b", "f", "g", "A", "L", "e", "x"}

\* datetime.fromisoformat accepts the string.  Python 3.7 to 3.10 accept
\* YYYY-MM-DD[*HH:MM:SS[+HH:MM]] only.  Python 3.11 and later also accept the
\* offset written +HHMM, and one stray character between the seconds and the
\* offset.  A string of another shape (no line of the model gives one but the
\* single letters of a broken subject) raises ValueError.
FromIsoformatAccepts(s, lenient) ==
    \/ Len(s) = 1 /\ s[1] \in DateSymbols
    \/ Len(s) = 3 /\ s[1] \in DateSymbols /\ s[2] \in PlainChars /\ s[3] \in TimeSymbols
    \/ /\ Len(s) = 4 /\ s[1] \in DateSymbols /\ s[2] \in PlainChars /\ s[3] \in TimeSymbols
       /\ s[4] \in ColonOffsets \cup (IF lenient THEN CompactOffsets ELSE {})
    \/ /\ Len(s) = 5 /\ s[1] \in DateSymbols /\ s[2] \in PlainChars /\ s[3] \in TimeSymbols
       /\ lenient /\ s[4] \in PlainChars /\ s[5] \in ColonOffsets \cup CompactOffsets

\* the tzinfo of an accepted offset: "+0100" and "+01:00" are the same offset
TzOf(o) ==
    CASE o \in {"+0000", "+00:00"} -> "+00:00"
      [] o \in {"+0100", "+01:00"} -> "+01:00"

\* datetime.fromisoformat's value for an accepted string
FromIsoformat(s) ==
    [date |-> s[1],
     time |-> IF Len(s) >= 3 THEN s[3] ELSE "00:00:00",
     tz   |-> IF Len(s) >= 4 THEN TzOf(s[Len(s)]) ELSE "naive"]

\* lines 77-79: the string handed to datetime.fromisoformat
NormalizeDate(date_str) == Replace(Replace(date_str, " ", "T"), "Z", "+00:00")

\* lines 81-84
MatchesUsername(author) ==
    \E k \in 1..Len(YOUR_USERNAMES) : Contains(Lower(author), Lower(YOUR_USERNAMES[k]))

\* lines 73-88: the records a line split into parts adds to commit_history
ParseParts(parts, repo_name, lenient) ==
    IF Len(parts) = 3
       /\ FromIsoformatAccepts(NormalizeDate(parts[1]), lenient)
       /\ MatchesUsername(parts[2])
    THEN << [repo |-> repo_name,
             date |-> FromIsoformat(NormalizeDate(parts[1])),
             message |-> parts[3]] >>
    ELSE <<>>

\* lines 72-88, the loop body: the records one line adds to commit_history
ParseLine(line, repo_name, lenient) == ParseParts(Split(line, ",", 2), repo_name, lenient)

\* a line the loop body drops whatever its author: a field is missing, or the
\* timestamp raises ValueError
IsMalformed(line, lenient) ==
    \/ Len(Split(line, ",", 2)) # 3
    \/ ~FromIsoformatAccepts(NormalizeDate(Split(line, ",", 2)[1]), lenient)

\* a loop that ends at the first malformed line
RECURSIVE ParseLinesUntilMalformed(_, _, _)
ParseLinesUntilMalformed(ls, repo_name, lenient) ==
    IF ls = <<>> \/ IsMalformed(Head(ls), lenient) THEN <<>>
    ELSE ParseLine(Head(ls), repo_name, lenient)
         \o ParseLinesUntilMalformed(Tail(ls), repo_name, lenient)

\* lines 71-88: the loop over the lines
RECURSIVE ParseLines(_, _, _)
ParseLines(ls, repo_name, lenient) ==
    IF ls = <<>> THEN <<>>
    ELSE ParseLine(Head(ls), repo_name, lenient) \o ParseLines(Tail(ls), repo_name, lenient)

\* an author set taken from the lines of the commit query
AuthorsOfCommitQuery(h, cmd, rc) ==
    IF rc = 0
    THEN {Split(l, ",", 2)[2] : l \in {m \in Range(SplitLines(CommitQueryStdout(h, cmd))) :
                                           Len(Split(m, ",", 2)) = 3}}
    ELSE {}

\* lines 46-53: the author set, from the author query over the whole history
AuthorsOfAuthorQuery(h, cmd, rc) ==
    IF rc = 0 THEN Range(SplitLines(AuthorQueryStdout(h))) ELSE {}

\* lines 66-94: the return value, from the lines of the commit query
ReturnValue(cmd, out, repo_name, authors, rcC, lenient) ==
    [git_cmd |-> cmd,
     lines |-> out,
     commit_history |-> IF rcC = 0 THEN ParseLines(out, repo_name, lenient) ELSE <<>>,
     all_authors |-> authors]

\* lines 55-94: the commit query with command line cmd, and what follows it
RunCommitQuery(cmd, repo_name, h, authors, rcC, lenient) ==
    ReturnValue(cmd, IF rcC = 0 THEN SplitLines(CommitQueryStdout(h, cmd)) ELSE <<>>,
                repo_name, authors, rcC, lenient)

\* lines 36-94: get_commit_history(repo_dir, start_date, end_date), for a
\* repository with history h whose queries exit with rcA and rcC
get_commit_history(repo_name, has_git, h, rcA, rcC, start_date, end_date, lenient) ==
    IF ~has_git
    THEN [git_cmd |-> <<>>, lines |-> <<>>, commit_history |-> <<>>, all_authors |-> {}]
    ELSE RunCommitQuery(BuildGitCmd(start_date, end_date), repo_name, h,
                        AuthorsOfAuthorQuery(h, BuildGitCmd(start_date, end_date), rcA),
                        rcC, lenient)

----------------------------------------------------------------------------
(* The extraction specification: one call of get_commit_history.           *)

SeqsUpTo(S, n) == UNION {[1..k -> S] : k \in 0..n}

MkCommit(dt, off, author, subject) ==
    [date |-> dt[1], time |-> dt[2], off |-> off, author |-> author, subject |-> subject]

ExtractCommits ==
    {MkCommit(dt, "+0000", a, s) : dt \in CommitDates, a \in Authors, s \in Subjects}
    \cup {MkCommit(<<"2024-01-01", "10:00:00">>, "+0000", <<"a", "l">>, BrokenSubject),
          MkCommit(<<"2024-01-03", "09:00:00">>, "+0000", CommaAuthor, <<"f">>)}

\* git log exits non-zero in a repository without any commit
ExitStatuses(h) == IF h = <<>> THEN {128} ELSE {0, 128}

\* relpath(repo_dir, REPOS_DIR) of the extraction specification's repository
ExtractRepo == <<"a">>

InitExtract ==
    /\ pc = "call"
    /\ hasGit \in BOOLEAN
    /\ history \in (IF hasGit THEN SeqsUpTo(ExtractCommits, MaxCommits) ELSE {<<>>})
    /\ rcAuthors \in ExitStatuses(history)
    /\ rcCommits \in ExitStatuses(history)
    /\ \E w \in ConfigWindows : START_DATE = w[1] /\ END_DATE = w[2]
    /\ isoLenient \in BOOLEAN
    /\ git_cmd = <<>>
    /\ lines = <<>>
    /\ commit_history = <<>>
    /\ all_authors = {}
    /\ tree = {}
    /\ git_repos = <<>>
    /\ idx = 0
    /\ all_commits = <<>>
    /\ all_unique_authors = {}
    /\ returned = <<>>
    /\ prev_authors = {}
    /\ failed = {}
    /\ output = NoFile

\* lines 22-94: the call and its return value
CallGetCommitHistory ==
    /\ pc = "call"
    /\ \E r \in {get_commit_history(ExtractRepo, hasGit, history, rcAuthors, rcCommits,
                                     START_DATE, END_DATE, isoLenient)} :
          /\ git_cmd' = r.git_cmd
          /\ lines' = r.lines
          /\ commit_history' = r.commit_history
          /\ all_authors' = r.all_authors
    /\ pc' = "returned"
    /\ UNCHANGED <<tree, git_repos, START_DATE, END_DATE, isoLenient, hasGit, history,
                   rcAuthors, rcCommits, idx, all_commits, all_unique_authors, returned,
                   prev_authors, failed, output>>

NextExtract == CallGetCommitHistory

SpecExtract == InitExtract /\ [][NextExtract]_vars

----------------------------------------------------------------------------
(* Claims about get_commit_history, checked under SpecExtract.             *)

\* the call has returned from a repository whose commit query exited zero
Extracted == pc = "returned" /\ hasGit /\ rcCommits = 0

\* the commits the date bounds of the configuration leave, by position
InConfiguredWindow(i) ==
    /\ DayOf(START_DATE) < DayOf(history[i].date)
    /\ DayOf(history[i].date) < DayOf(END_DATE)

\* the lines git prints for the commits of h, in order
RECURSIVE RecordLines(_)
RecordLines(h) ==
    IF h = <<>> THEN <<>> ELSE SplitLines(FormatCommit(Head(h))) \o RecordLines(Tail(h))

\* C2 (as claimed): when every commit's record is one line of the query's
\* output, every returned commit record carries, verbatim, the subject of a
\* commit of the history made at the record's date: no subject is cut or changed
\* on the way from the query to the message field.
ClaimC2_SubjectVerbatim ==
    (pc = "returned"
     /\ \A i \in 1..Len(history) : Len(SplitLines(FormatCommit(history[i]))) = 1) =>
        \A k \in 1..Len(commit_history) :
            \E i \in 1..Len(history) :
                /\ commit_history[k].message = history[i].subject
                /\ commit_history[k].date.date = history[i].date
                /\ commit_history[k].date.time = history[i].time

\* the commits whose record reaches the parser with a timestamp that parses
ParsedCommits ==
    {i \in 1..Len(history) :
        /\ InWindow(history[i], git_cmd)
        /\ ~IsMalformed(SplitLines(FormatCommit(history[i]))[1], isoLenient)}

\* C3 (as claimed): a commit whose line parses is returned if and only if its
\* author name contains, case-insensitively, one of the configured identities;
\* so the returned list has one record per parsed commit of a matching author,
\* and every record is of a matching author.
ClaimC3_AuthorFilter ==
    Extracted =>
        /\ Len(commit_history) =
               Cardinality({i \in ParsedCommits : MatchesUsername(history[i].author)})
        /\ \A k \in 1..Len(commit_history) :
               \E i \in ParsedCommits :
                   /\ MatchesUsername(history[i].author)
                   /\ commit_history[k].date.date = history[i].date

\* the lines that have their three fields, a timestamp that parses and a
\* matching author field
KeptLines ==
    SelectSeq(lines, LAMBDA l : ~IsMalformed(l, isoLenient)
                                /\ MatchesUsername(Split(l, ",", 2)[2]))

\* C4: a line with a missing field or a timestamp that does not parse yields
\* no record, and the lines after it are processed as if it were absent: the
\* returned list is, in order, one record per well-formed line of a matching
\* author, built from that line's fields.
TheoremC4_MalformedDropped ==
    pc = "returned" =>
        /\ Len(commit_history) = Len(KeptLines)
        /\ \A k \in 1..Len(commit_history) :
               /\ commit_history[k].message = Split(KeptLines[k], ",", 2)[3]
               /\ commit_history[k].date =
                      FromIsoformat(NormalizeDate(Split(KeptLines[k], ",", 2)[1]))
               /\ commit_history[k].repo = ExtractRepo

\* a line with a missing field and a line with a bad timestamp were dropped,
\* and a later line gave the last record
WitnessC4 ==
    /\ Extracted
    /\ \E i, j, k \in 1..Len(lines) :
           /\ i < k /\ j < k /\ k = Len(lines)
           /\ Len(Split(lines[i], ",", 2)) < 3
           /\ Len(Split(lines[j], ",", 2)) = 3 /\ IsMalformed(lines[j], isoLenient)
           /\ ~IsMalformed(lines[k], isoLenient)
           /\ Len(commit_history) >= 1
           /\ commit_history[Len(commit_history)].message = Split(lines[k], ",", 2)[3]

\* the two halves of C8: the author set is the set of the author names of the
\* whole history, whatever the date bounds and the identities; a repository with
\* history and no commit by a configured identity gives an empty commit list and
\* a non-empty author set
AuthorsOfWholeHistory ==
    /\ all_authors = {history[i].author : i \in 1..Len(history)}
    /\ (history # <<>> /\ \A i \in 1..Len(history) : ~MatchesUsername(history[i].author))
          => (commit_history = <<>> /\ all_authors # {})

\* C8 (as claimed): the returned author set is the set of the author names of
\* the repository's whole history, so it is non-empty whenever history exists.
ClaimC8_AuthorsOfWholeHistory ==
    (pc = "returned" /\ hasGit) => AuthorsOfWholeHistory

\* C8 (amended): when the author query exits zero, the returned author set is
\* the set of the author names of the repository's whole history, whatever the
\* date bounds and the identities, so it is non-empty whenever history exists.
TheoremC8_AuthorsWhenQuerySucceeds ==
    (pc = "returned" /\ hasGit /\ rcAuthors = 0) => AuthorsOfWholeHistory

\* history of other authors only, a date window that leaves some commit out
WitnessC8 ==
    /\ pc = "returned" /\ hasGit /\ rcAuthors = 0 /\ rcCommits = 0 /\ isoLenient
    /\ history # <<>>
    /\ \A i \in 1..Len(history) : ~MatchesUsername(history[i].author)
    /\ START_DATE # "None" /\ END_DATE # "None"
    /\ \E i \in 1..Len(history) : ~InConfiguredWindow(i)
    /\ \E i \in 1..Len(history) : InConfiguredWindow(i)
    /\ commit_history = <<>>
    /\ all_authors = {history[i].author : i \in 1..Len(history)}

\* C9: the commit query carries the date bounds only when both dates are
\* supplied, and then both; with one date or none it carries no bound and its
\* output holds the commits of every date.
TheoremC9_BoundsOnlyWhenBoth ==
    Extracted =>
        IF START_DATE # "None" /\ END_DATE # "None"
        THEN /\ FlagOf(git_cmd, "--since=") = START_DATE
             /\ FlagOf(git_cmd, "--until=") = END_DATE
             /\ lines = RecordLines(SelectSeq(history,
                            LAMBDA c : DayOf(START_DATE) < DayOf(c.date)
                                       /\ DayOf(c.date) < DayOf(END_DATE)))
        ELSE /\ FlagOf(git_cmd, "--since=") = "None"
             /\ FlagOf(git_cmd, "--until=") = "None"
             /\ lines = RecordLines(history)

\* only the start date is supplied, and a commit made before it is returned
WitnessC9 ==
    /\ Extracted /\ isoLenient
    /\ START_DATE = "2024-01-02" /\ END_DATE = "None"
    /\ \E i \in 1..Len(history) : DayOf(history[i].date) < DayOf(START_DATE)
    /\ \E k \in 1..Len(commit_history) :
           DayOf(commit_history[k].date.date) < DayOf(START_DATE)

\* C10 (as claimed): the timestamp of every record the commit query prints
\* parses after the normalisation, so every commit inside the window whose
\* author field matches is in the returned list.
ClaimC10_IsoDateParses ==
    Extracted =>
        \A i \in 1..Len(history) :
            InWindow(history[i], git_cmd) =>
                /\ FromIsoformatAccepts(NormalizeDate(FormatDateIso(history[i])), isoLenient)
                /\ MatchesUsername(Split(FormatCommit(history[i]), ",", 2)[2])
                      => \E k \in 1..Len(commit_history) :
                             commit_history[k].date.date = history[i].date

----------------------------------------------------------------------------
(* The discovery specification: a directory tree is built under REPOS_DIR, *)
(* then find_git_repos walks it.                                           *)

\* the names of the directories of the discovery specification
DiscoverNames == {".git", "commit_history", "a"}

InitDiscover ==
    /\ pc = "mkdir"
    /\ tree = {}
    /\ git_repos = <<>>
    /\ START_DATE = "None"
    /\ END_DATE = "None"
    /\ isoLenient = TRUE
    /\ hasGit = FALSE
    /\ history = <<>>
    /\ rcAuthors = 0
    /\ rcCommits = 0
    /\ git_cmd = <<>>
    /\ lines = <<>>
    /\ commit_history = <<>>
    /\ all_authors = {}
    /\ idx = 0
    /\ all_commits = <<>>
    /\ all_unique_authors = {}
    /\ returned = <<>>
    /\ prev_authors = {}
    /\ failed = {}
    /\ output = NoFile

\* the file system before the run: one more directory, anywhere in the tree
Mkdir ==
    /\ pc = "mkdir"
    /\ Cardinality(tree) < MaxDirs
    /\ \E parent \in tree \cup {<<>>}, n \in DiscoverNames :
           /\ (parent \o <<n>>) \notin tree
           /\ tree' = tree \cup {parent \o <<n>>}
    /\ UNCHANGED <<pc, git_repos, START_DATE, END_DATE, isoLenient, hasGit, history,
                   rcAuthors, rcCommits, git_cmd, lines, commit_history, all_authors, idx,
                   all_commits, all_unique_authors, returned, prev_authors, failed, output>>

\* lines 97-122: find_git_repos(REPOS_DIR)
FindGitRepos ==
    /\ pc = "mkdir"
    /\ git_repos' = find_git_repos(tree)
    /\ pc' = "walked"
    /\ UNCHANGED <<tree, START_DATE, END_DATE, isoLenient, hasGit, history,
                   rcAuthors, rcCommits, git_cmd, lines, commit_history, all_authors, idx,
                   all_commits, all_unique_authors, returned, prev_authors, failed, output>>

NextDiscover == Mkdir \/ FindGitRepos

SpecDiscover == InitDiscover /\ [][NextDiscover]_vars

----------------------------------------------------------------------------
(* Claims about find_git_repos, checked under SpecDiscover.                *)

\* REPOS_DIR and every directory under it
AllDirs == tree \cup {<<>>}

\* d contains a .git subdirectory
ContainsGitDir(d) == (d \o <<".git">>) \in tree

\* q is the .git folder of p or lies inside it
InMetadataOf(q, p) == Len(q) > Len(p) /\ SubSeq(q, 1, Len(p) + 1) = p \o <<".git">>

EachOnce(s) == \A i, j \in 1..Len(s) : s[i] = s[j] => i = j

NoneInsideAnothersMetadata(s) == \A p, q \in Range(s) : ~InMetadataOf(q, p)

\* C1 (as claimed): find_git_repos returns, each once, exactly the directories
\* that contain a .git subdirectory (those inside the .git folder of such a
\* directory apart), and none inside the .git folder of another returned one.
ClaimC1_ExactlyTheGitDirs ==
    pc = "walked" =>
        /\ Range(git_repos) =
               {d \in AllDirs : /\ ContainsGitDir(d)
                                /\ ~\E p \in AllDirs : ContainsGitDir(p) /\ InMetadataOf(d, p)}
        /\ EachOnce(git_repos)
        /\ NoneInsideAnothersMetadata(git_repos)

\* the walk reaches d: it enters a .git folder only under a directory named as
\* the output file is, the one it never takes for a repository
ReachedByWalk(d) ==
    \A k \in 1..Len(d) : d[k] = ".git" => Basename(SubSeq(d, 1, k - 1)) = "commit_history"

\* C1 (amended): find_git_repos returns, each once, exactly the directories that
\* contain a .git subdirectory, are not named commit_history and are reached by
\* the walk, and none inside the .git folder of another returned one.
TheoremC1_GitDirsButOutputName ==
    pc = "walked" =>
        /\ Range(git_repos) =
               {d \in AllDirs : /\ ContainsGitDir(d)
                                /\ Basename(d) # "commit_history"
                                /\ ReachedByWalk(d)}
        /\ EachOnce(git_repos)
        /\ NoneInsideAnothersMetadata(git_repos)

\* after the walk: a returned repository whose .git folder holds a directory
\* with a .git of its own, and a commit_history directory with a .git
WitnessC1 ==
    /\ pc = "walked"
    /\ \E p \in Range(git_repos), q \in AllDirs :
           ContainsGitDir(q) /\ InMetadataOf(q, p) /\ q \notin Range(git_repos)
    /\ \E d \in AllDirs :
           /\ ContainsGitDir(d) /\ Basename(d) = "commit_history" /\ d \notin Range(git_repos)
           /\ \A k \in 1..Len(d) : d[k] # ".git"

----------------------------------------------------------------------------
(* collect_all_commits.                                                    *)

\* subprocess.run(..., check=True): a non-zero exit raises CalledProcessError
RunRaisesOnFailure(rc) == rc # 0

\* lines 47-49 and 64: subprocess.run without check never raises on the exit status
RunRaises(rc) == FALSE

TzHours(tz) ==
    CASE tz = "+01:00" -> 1
      [] OTHER -> 0

\* the instant of an aware datetime, in hours: how datetime values compare
Instant(d) == DayOf(d.date) * 24 + HourOf(d.time) - TzHours(d.tz)

RemoveAt(s, i) == SubSeq(s, 1, i - 1) \o SubSeq(s, i + 1, Len(s))

\* the orders sort_values(by="Date", ascending=True) can give
RECURSIVE SortValuesAscending(_)
SortValuesAscending(rows) ==
    IF rows = <<>> THEN {<<>>}
    ELSE UNION { {<<rows[i]>> \o rest : rest \in SortValuesAscending(RemoveAt(rows, i))} :
                 i \in {j \in 1..Len(rows) :
                          \A k \in 1..Len(rows) :
                              Instant(rows[j].date) <= Instant(rows[k].date)} }

\* line 162, sort_values(by="Date", ascending=False) with the default quicksort:
\* every order with the newest first (rows of one instant in any order)
RECURSIVE SortValuesDescending(_)
SortValuesDescending(rows) ==
    IF rows = <<>> THEN {<<>>}
    ELSE UNION { {<<rows[i]>> \o rest : rest \in SortValuesDescending(RemoveAt(rows, i))} :
                 i \in {j \in 1..Len(rows) :
                          \A k \in 1..Len(rows) :
                              Instant(rows[j].date) >= Instant(rows[k].date)} }

\* line 159: pandas gives the Date column a datetime dtype only when all its
\* values carry one UTC offset; otherwise the column keeps dtype object
DateColumnIsDatetime(rows) == Cardinality({rows[i].date.tz : i \in 1..Len(rows)}) <= 1

\* line 165, strftime("%Y-%m-%d %H:%M:%S"): the wall-clock date and time
StrftimeRow(r) == [repo |-> r.repo, date |-> <<r.date.date, " ", r.date.time>>,
                   message |-> r.message]

\* line 147
ExtendCommits(all, commits) == all \o commits

----------------------------------------------------------------------------
(* The collection specification: one run of collect_all_commits.           *)

\* the repositories under REPOS_DIR
RepoDirs == <<"a", "b", "c">>

RepoTree(n) == UNION { {<<RepoDirs[i]>>, <<RepoDirs[i], ".git">>} : i \in 1..n }

\* commits of "al" at two dates and under two UTC offsets, and one of "b"
CollectCommits ==
    { MkCommit(<<"2024-01-01", "10:00:00">>, "+0000", <<"a", "l">>, <<"f">>),
      MkCommit(<<"2024-01-03", "09:00:00">>, "+0000", <<"a", "l">>, <<"f">>),
      MkCommit(<<"2024-01-01", "10:00:00">>, "+0100", <<"a", "l">>, <<"f">>),
      MkCommit(<<"2024-01-01", "10:00:00">>, "+0000", <<"b">>, <<"f">>) }

CollectWindows == { <<"None", "None">>, <<"2024-01-02", "2024-01-04">>,
                    <<"2024-01-04", "2024-01-02">> }

Init ==
    /\ pc = "start"
    /\ tree \in {RepoTree(n) : n \in 0..MaxRepos}
    /\ \E w \in CollectWindows : START_DATE = w[1] /\ END_DATE = w[2]
    /\ isoLenient \in BOOLEAN
    /\ git_repos = <<>>
    /\ hasGit = FALSE
    /\ history = <<>>
    /\ rcAuthors = 0
    /\ rcCommits = 0
    /\ git_cmd = <<>>
    /\ lines = <<>>
    /\ commit_history = <<>>
    /\ all_authors = {}
    /\ idx = 0
    /\ all_commits = <<>>
    /\ all_unique_authors = {}
    /\ returned = <<>>
    /\ prev_authors = {}
    /\ failed = {}
    /\ output = NoFile

\* lines 132-140
Discover ==
    /\ pc = "start"
    /\ git_repos' = find_git_repos(tree)
    /\ pc' = "loop"
    /\ UNCHANGED <<tree, START_DATE, END_DATE, isoLenient, hasGit, history,
                   rcAuthors, rcCommits, git_cmd, lines, commit_history, all_authors, idx,
                   all_commits, all_unique_authors, returned, prev_authors, failed, output>>

\* lines 143-148, one turn of the loop: the repository has history h and its
\* queries exit with rcA and rcC
ProcessRepo ==
    /\ pc = "loop"
    /\ idx < Len(git_repos)
    /\ \E h \in SeqsUpTo(CollectCommits, MaxRepoCommits) :
       \E rcA \in ExitStatuses(h), rcC \in ExitStatuses(h) :
           LET repo == git_repos[idx + 1]
               has == (repo \o <<".git">>) \in tree
           IN \E r \in {get_commit_history(repo, has, h, rcA, rcC,
                                            START_DATE, END_DATE, isoLenient)} :
              /\ hasGit' = has
              /\ history' = h
              /\ rcAuthors' = rcA
              /\ rcCommits' = rcC
              /\ failed' = IF rcA # 0 \/ rcC # 0 THEN failed \cup {idx + 1} ELSE failed
              /\ IF RunRaises(rcA) \/ RunRaises(rcC)
                 THEN /\ pc' = "aborted"
                      /\ UNCHANGED <<git_cmd, lines, commit_history, all_authors, idx,
                                     all_commits, all_unique_authors, returned, prev_authors>>
                 ELSE /\ pc' = "loop"
                      /\ git_cmd' = r.git_cmd
                      /\ lines' = r.lines
                      /\ commit_history' = r.commit_history
                      /\ all_authors' = r.all_authors
                      /\ returned' = Append(returned, r.commit_history)
                      /\ prev_authors' = all_unique_authors
                      /\ all_commits' = ExtendCommits(all_commits, r.commit_history)
                      /\ all_unique_authors' = all_unique_authors \cup r.all_authors
                      /\ idx' = idx + 1
    /\ UNCHANGED <<tree, git_repos, START_DATE, END_DATE, isoLenient, output>>

\* lines 158-170 when every Date carries one UTC offset: the table is written
Export ==
    /\ pc = "loop"
    /\ idx = Len(git_repos)
    /\ all_commits # <<>>
    /\ DateColumnIsDatetime(all_commits)
    /\ \E df \in SortValuesDescending(all_commits) :
           output' = [written |-> TRUE, rows |-> [i \in 1..Len(df) |-> StrftimeRow(df[i])]]
    /\ pc' = "exported"
    /\ UNCHANGED <<tree, git_repos, START_DATE, END_DATE, isoLenient, hasGit, history,
                   rcAuthors, rcCommits, git_cmd, lines, commit_history, all_authors, idx,
                   all_commits, all_unique_authors, returned, prev_authors, failed>>

\* lines 158-165 when the Dates carry different UTC offsets: the column has dtype
\* object, df["Date"].dt raises AttributeError and the run ends before to_excel
ExportRaises ==
    /\ pc = "loop"
    /\ idx = Len(git_repos)
    /\ all_commits # <<>>
    /\ ~DateColumnIsDatetime(all_commits)
    /\ pc' = "raised"
    /\ UNCHANGED <<tree, git_repos, START_DATE, END_DATE, isoLenient, hasGit, history,
                   rcAuthors, rcCommits, git_cmd, lines, commit_history, all_authors, idx,
                   all_commits, all_unique_authors, returned, prev_authors, failed, output>>

\* lines 171-173
ReportNoCommits ==
    /\ pc = "loop"
    /\ idx = Len(git_repos)
    /\ all_commits = <<>>
    /\ pc' = "no_commits"
    /\ UNCHANGED <<tree, git_repos, START_DATE, END_DATE, isoLenient, hasGit, history,
                   rcAuthors, rcCommits, git_cmd, lines, commit_history, all_authors, idx,
                   all_commits, all_unique_authors, returned, prev_authors, failed, output>>

Next == Discover \/ ProcessRepo \/ Export \/ ExportRaises \/ ReportNoCommits

Spec == Init /\ [][Next]_vars

----------------------------------------------------------------------------
(* Claims about collect_all_commits, checked under Spec.                   *)

\* the run has ended: the table is written, the export raised, or the report
\* of no matching commits is printed
Terminal == pc \in {"exported", "raised", "no_commits"}

RECURSIVE Flatten(_)
Flatten(ss) == IF ss = <<>> THEN <<>> ELSE Head(ss) \o Flatten(Tail(ss))

\* the hour a written row shows: its date and time of day
WallClock(row) == DayOf(row.date[1]) * 24 + HourOf(row.date[3])

\* how many entries of s satisfy Test
Count(s, Test(_)) == Cardinality({j \in 1..Len(s) : Test(s[j])})

\* C5: whenever the table is written it has exactly one row per matched commit
\* of all the repositories (the lists the calls returned, one after the other,
\* nothing merged away and nothing lost), and its rows are in non-increasing
\* order of timestamp.
TheoremC5_OneRowPerCommitNewestFirst ==
    pc = "exported" =>
        /\ output.written
        /\ all_commits = Flatten(returned)
        /\ Len(output.rows) = Len(all_commits)
        /\ \A k \in 1..Len(all_commits) :
               Count(output.rows, LAMBDA row : row = StrftimeRow(all_commits[k]))
                   = Count(all_commits, LAMBDA c : StrftimeRow(c) = StrftimeRow(all_commits[k]))
        /\ \A j \in 1..(Len(output.rows) - 1) :
               WallClock(output.rows[j]) >= WallClock(output.rows[j + 1])

\* the table is written with two rows of one date and one message, of two
\* repositories
WitnessC5 ==
    /\ pc = "exported"
    /\ \E i, j \in 1..Len(output.rows) :
           /\ output.rows[i].repo # output.rows[j].repo
           /\ output.rows[i].date = output.rows[j].date
           /\ output.rows[i].message = output.rows[j].message

\* C6 (as claimed): the run writes the file if and only if the merged commit
\* list is not empty; with an empty list (as when the start date is after the
\* end date) it writes no file and ends in the report of no matching commits.
ClaimC6_FileIffCommits ==
    Terminal =>
        /\ output.written <=> all_commits # <<>>
        /\ all_commits = <<>> => pc = "no_commits"
        /\ (START_DATE # "None" /\ END_DATE # "None" /\ DayOf(START_DATE) > DayOf(END_DATE))
              => (all_commits = <<>> /\ ~output.written)

\* the loop has processed at least one repository
Processed == pc \in {"loop", "exported", "raised", "no_commits", "aborted"} /\ idx >= 1

\* what C7 and its amendment share: a failed query does not abort the run, every
\* repository is processed once, in order and under its own name, what each call
\* returned is merged, and the run ends only after the last repository
RunGoesOn ==
    /\ pc # "aborted"
    /\ failed \subseteq 1..idx
    /\ idx <= Len(git_repos)
    /\ Len(returned) = idx
    /\ \A k \in 1..Len(returned) : \A n \in 1..Len(returned[k]) :
           returned[k][n].repo = git_repos[k]
    /\ all_commits = Flatten(returned)
    /\ Processed => (returned[idx] = commit_history
                     /\ all_unique_authors = prev_authors \cup all_authors)
    /\ Terminal => idx = Len(git_repos)

====
